---- MODULE Spec2Model ----
(***************************************************************************)
(* Trainer (src/Trainer.py): the epoch loop of train(), the cursor batch   *)
(* loops of train(), predict() and predict_grad(), checkpoint selection    *)
(* and the two stopping rules.                                             *)
(*                                                                         *)
(* The predictive model, the optimizer and the tensor runtime are external *)
(* collaborators.  What they compute is abstracted as follows:             *)
(*   - the model's output for example k of a dataset is written k, so that *)
(*     yhat[k] = k says "entry k holds the output for example k";          *)
(*   - a batch loss is the symbolic record [fn, lo, hi]: the loss function *)
(*     applied and the (clipped) slice it was applied to;                  *)
(*   - np.mean of a non-empty list of batch losses is a finite level       *)
(*     chosen by the environment, np.mean([]) is NaN;                      *)
(*   - mean train losses are levels in units of half the convergence       *)
(*     tolerance (1e-4 = Tol units); dev correlations are ordinal levels.  *)
(* Floats are integers with three reserved codes NaN, Inf, NegInf and the  *)
(* IEEE rule that every ordered comparison with NaN is false.              *)
(***************************************************************************)
EXTENDS Integers, Sequences, FiniteSets, TLC

\* ---- bounds ----
MaxTotal == 5
MaxBatch == 2
MaxEpochs == 5
BatchEpochs == 2
MaxLoss == 2
MaxR == 3

\* ---- program constants ----
Inf == 1000
NegInf == -1000
NaN == 7777
Tol == 2
Patience == 3
NoFile == -1

LossVals == 0..MaxLoss
RVals == 0..MaxR
Megaverid == "megaverid"
OtherData == "other"

VARIABLES
  \* Trainer configuration (__init__)
  epochs, train_batch_size, predict_batch_size, data_name, pretraining,
  \* lengths of the datasets the caller passes
  datasets,
  \* self._model: "none" before the first train(), else its mode flag
  model_mode,
  \* optimizer steps applied to self._model since it was constructed
  model_steps,
  \* best_model_file: NoFile, or the epoch whose state_dict it holds
  ckpt,
  \* control
  pc, caller, ret,
  \* locals of train()
  total_obs, dev_total, epoch, bidx_i, bidx_j, batch_losses, curr_train_loss,
  best_loss, best_r, train_losses, dev_losses, dev_rs, bad_count,
  \* the calls the batch loop of the current epoch made, in order
  ops,
  \* locals of predict() / predict_grad()
  p_total, p_i, p_j, yhat, p_batch_losses, loss,
  \* the slices predict() / predict_grad() passed to the model, in order
  p_batches,
  \* history of the current train() call: the tracked metric of every epoch
  \* run, whether that epoch wrote the checkpoint, whether a break fired
  metrics, saved, broke,
  \* the most recent model invocation: who made it and the mode it ran in
  last_invoke

cfgVars == <<epochs, train_batch_size, predict_batch_size, data_name,
             pretraining, datasets>>
trainVars == <<total_obs, dev_total, epoch, bidx_i, bidx_j, batch_losses,
               curr_train_loss, best_loss, best_r, train_losses, dev_losses,
               dev_rs, bad_count, ops>>
predVars == <<p_total, p_i, p_j, yhat, p_batch_losses, loss, p_batches>>
histVars == <<metrics, saved, broke>>
vars == <<cfgVars, model_mode, model_steps, ckpt, pc, caller, ret, trainVars, predVars,
          histVars, last_invoke>>

\* ---- float helpers ----
Abs(x) == IF x < 0 THEN -x ELSE x
Min(a, b) == IF a < b THEN a ELSE b
Lt(a, b) == a # NaN /\ b # NaN /\ a < b
Gt(a, b) == a # NaN /\ b # NaN /\ a > b
Le(a, b) == a # NaN /\ b # NaN /\ a <= b
Last(s) == s[Len(s)]

\* np.mean(batch_losses): NaN for the empty list, else the level v
MeanOf(losses, v) == IF losses = <<>> THEN NaN ELSE v

\* the level set np.mean(batch_losses) of a training epoch is drawn from; in
\* validation mode the value is only appended, never compared, and one
\* finite level stands for all
TrainLossVals == IF data_name = Megaverid THEN LossVals ELSE {0}

\* ---- the cursor loop ----
\* while bidx_j < total_obs
LoopCond(j, total) == j < total
\* a trailing-batch test that misses a cursor landing exactly on the end
TailCondStrict(j, total) == j > total
\* if bidx_j >= total_obs (the trailing batch inside the loop body)
TailCond(j, total) == j >= total
\* X[i:j] on a list of length total: indices lo .. hi-1
SliceHi(j, total) == Min(j, total)
Slice(i, j, total) == [lo |-> i, hi |-> SliceHi(j, total)]

\* self._custom_loss(model_out, Y[i:j], ...) : smooth L1 whatever the
\* pretraining arguments are
CustomLoss(i, j, total) ==
  [fn |-> "smooth_l1", lo |-> i, hi |-> SliceHi(j, total)]
\* a training loss that folds the pretraining signal in
TrainBatchLossAux(pre, i, j, total) ==
  IF pre THEN [fn |-> "smooth_l1+pretrain", lo |-> i, hi |-> SliceHi(j, total)]
  ELSE CustomLoss(i, j, total)
\* the loss of one training batch (both branches of `if self.pretraining`)
TrainBatchLoss(pre, i, j, total) ==
  IF pre THEN CustomLoss(i, j, total) ELSE CustomLoss(i, j, total)
\* the loss of one predict() batch
PredictBatchLoss(pre, flag, i, j, total) ==
  IF pre THEN CustomLoss(i, j, total)
  ELSE IF flag = "l1"
       THEN [fn |-> "l1", lo |-> i, hi |-> SliceHi(j, total)]
       ELSE CustomLoss(i, j, total)
\* yhat[i:j] = model_out.squeeze()
WriteYhat(y, i, j, total) ==
  [k \in DOMAIN y |-> IF i <= k /\ k < SliceHi(j, total) THEN k ELSE y[k]]
\* torch.zeros(total_obs): entry -1 stands for the pre-allocated zero
Zeros(total) == [k \in 0..(total - 1) |-> -1]
NoYhat == Zeros(0)
\* cursor advance inside predict() and predict_grad()
PredictNextJ(i) == i + train_batch_size

\* the calls made for one training batch: optimizer.zero_grad(), the forward
\* pass, _custom_loss, batch_losses.append, backward(), optimizer.step()
TrainOps ==
  <<"zero_grad", "forward", "loss", "record", "backward", "step">>

\* ---- mutated policies ----
\* a checkpoint rule that also fires on a tie
BetterLossTie(curr, best) == Le(curr, best)
\* a convergence test that also fires at exactly the tolerance
ConvergedAtTol(ep, curr, hist) ==
  ep # 0 /\ curr # NaN /\ Last(hist) # NaN /\ Abs(curr - Last(hist)) <= Tol
\* an early stop that waits for one more bad epoch
EarlyStopLate(bad) == bad > Patience
\* a checkpoint rule on the correlation that also fires on a tie
BetterRTie(curr, best) == curr # NaN /\ best # NaN /\ curr >= best
\* a bad-epoch counter that is never reset
BadCountNoReset(ep, curr, hist, bad) ==
  IF ep # 0 THEN (IF Lt(curr, Last(hist)) THEN bad + 1 ELSE bad) ELSE bad
\* a history append that ignores the break
AppendAlways(stop, hist, x) == Append(hist, x)

\* ---- epoch-level policy ----
\* if curr_train_loss < best_loss
BetterLoss(curr, best) == Lt(curr, best)
\* if curr_dev_r[0] > best_r
BetterR(curr, best) == Gt(curr, best)
\* if epoch: if abs(curr_train_loss - train_losses[-1]) < 0.0001: break
Converged(ep, curr, hist) ==
  ep # 0 /\ curr # NaN /\ Last(hist) # NaN /\ Abs(curr - Last(hist)) < Tol
\* if epoch: if curr_dev_r[0] < dev_rs[-1]: bad_count+=1 else: bad_count=0
BadCount(ep, curr, hist, bad) ==
  IF ep # 0 THEN (IF Lt(curr, Last(hist)) THEN bad + 1 ELSE 0) ELSE bad
\* if bad_count >= 3: break
EarlyStop(bad) == bad >= Patience
\* break comes before the append(s) at the end of the epoch
AppendUnless(stop, hist, x) == IF stop THEN hist ELSE Append(hist, x)
\* pearsonr(curr_dev_preds, dev_y): undefined (NaN) on constant predictions
Pearson(y, r) ==
  IF \A k \in DOMAIN y : y[k] = -1 THEN NaN ELSE r

NoInvoke == [by |-> "none", mode |-> "none"]

\* ---- initial states ----
InitCommon ==
  /\ model_mode = "none" /\ model_steps = 0 /\ ckpt = NoFile
  /\ pc = "top" /\ caller = "top" /\ ret = "none"
  /\ total_obs = 0 /\ dev_total = 0 /\ epoch = 0 /\ bidx_i = 0 /\ bidx_j = 0
  /\ batch_losses = <<>> /\ curr_train_loss = 0
  /\ best_loss = Inf /\ best_r = NegInf
  /\ train_losses = <<>> /\ dev_losses = <<>> /\ dev_rs = <<>>
  /\ bad_count = 0 /\ ops = <<>>
  /\ p_total = 0 /\ p_i = 0 /\ p_j = 0 /\ yhat = NoYhat
  /\ p_batch_losses = <<>> /\ loss = "None" /\ p_batches = <<>>
  /\ metrics = <<>> /\ saved = <<>> /\ broke = FALSE
  /\ last_invoke = NoInvoke

\* every batch-size / dataset-size combination, few epochs
Init ==
  /\ epochs \in 1..BatchEpochs
  /\ train_batch_size \in 1..MaxBatch
  /\ predict_batch_size \in 1..MaxBatch
  /\ data_name \in {Megaverid, OtherData}
  /\ pretraining \in BOOLEAN
  /\ datasets = 1..MaxTotal
  /\ InitCommon

\* many epochs, one batch size, a dataset that fits in one batch and one
\* that does not
InitEpoch ==
  /\ epochs \in 1..MaxEpochs
  /\ train_batch_size = MaxBatch
  /\ predict_batch_size = MaxBatch
  /\ data_name \in {Megaverid, OtherData}
  /\ pretraining \in BOOLEAN
  /\ datasets = {MaxBatch, MaxBatch + 1}
  /\ InitCommon

\* ---- frames ----
ResetTrain ==
  /\ total_obs' = 0 /\ dev_total' = 0 /\ epoch' = 0
  /\ bidx_i' = 0 /\ bidx_j' = 0 /\ batch_losses' = <<>>
  /\ curr_train_loss' = 0 /\ best_loss' = Inf /\ best_r' = NegInf
  /\ train_losses' = <<>> /\ dev_losses' = <<>> /\ dev_rs' = <<>>
  /\ bad_count' = 0 /\ ops' = <<>>
  /\ metrics' = <<>> /\ saved' = <<>> /\ broke' = FALSE

ResetPredict ==
  /\ p_total' = 0 /\ p_i' = 0 /\ p_j' = 0 /\ yhat' = NoYhat
  /\ p_batch_losses' = <<>> /\ loss' = "None" /\ p_batches' = <<>>

\* the first lines of predict(): eval(), cursor, pre-allocated result
EnterPredict(n, flag) ==
  /\ model_mode' = "eval"
  /\ p_total' = n /\ p_i' = 0 /\ p_j' = predict_batch_size
  /\ yhat' = Zeros(n) /\ p_batch_losses' = <<>> /\ loss' = flag
  /\ p_batches' = <<>>

\* ---- train() ----
\* a train() whose best metrics and bad-epoch counter live on the Trainer
\* and survive from the previous call
CallTrainCarry(n, d) ==
  /\ pc = "top"
  /\ model_mode' = "train" /\ model_steps' = 0
  /\ total_obs' = n
  /\ dev_total' = IF data_name # Megaverid THEN d ELSE 0
  /\ UNCHANGED <<best_loss, best_r, bad_count>>
  /\ train_losses' = <<>> /\ dev_losses' = <<>> /\ dev_rs' = <<>>
  /\ epoch' = 0
  /\ bidx_i' = 0 /\ bidx_j' = 0 /\ batch_losses' = <<>>
  /\ curr_train_loss' = 0 /\ ops' = <<>>
  /\ metrics' = <<>> /\ saved' = <<>> /\ broke' = FALSE
  /\ ResetPredict
  /\ last_invoke' = NoInvoke
  /\ pc' = "epoch_start" /\ caller' = "top" /\ ret' = "none"
  /\ UNCHANGED <<cfgVars, ckpt>>
\* an epoch start that leaves the model in whatever mode it is in
EpochStartKeepMode ==
  /\ pc = "epoch_start"
  /\ batch_losses' = <<>> /\ ops' = <<>>
  /\ bidx_i' = 0 /\ bidx_j' = train_batch_size
  /\ pc' = "train_loop"
  /\ UNCHANGED <<cfgVars, model_steps, model_mode, ckpt, caller, ret,
                 total_obs, dev_total, epoch, curr_train_loss, best_loss,
                 best_r, train_losses, dev_losses, dev_rs, bad_count,
                 predVars, histVars, last_invoke>>
\* a while body that advances the end of the slice but not its start
TrainBatchKeepStart ==
  /\ pc = "train_loop"
  /\ LoopCond(bidx_j, total_obs)
  /\ batch_losses' = Append(batch_losses,
                       TrainBatchLoss(pretraining, bidx_i, bidx_j, total_obs))
  /\ last_invoke' = [by |-> "train", mode |-> model_mode]
  /\ ops' = ops \o TrainOps
  /\ model_steps' = model_steps + 1
  /\ bidx_i' = bidx_i
  /\ bidx_j' = bidx_j + train_batch_size
  /\ pc' = "train_tail"
  /\ UNCHANGED <<cfgVars, model_mode, ckpt, caller, ret, total_obs,
                 dev_total, epoch, curr_train_loss, best_loss, best_r,
                 train_losses, dev_losses, dev_rs, bad_count, predVars,
                 histVars>>

\* train(train_X, train_Y, dev, ...): fresh model, fresh training state
CallTrain(n, d) ==
  /\ pc = "top"
  /\ model_mode' = "train" /\ model_steps' = 0
  /\ total_obs' = n
  /\ dev_total' = IF data_name # Megaverid THEN d ELSE 0
  /\ best_loss' = Inf /\ best_r' = NegInf
  /\ train_losses' = <<>> /\ dev_losses' = <<>> /\ dev_rs' = <<>>
  /\ bad_count' = 0 /\ epoch' = 0
  /\ bidx_i' = 0 /\ bidx_j' = 0 /\ batch_losses' = <<>>
  /\ curr_train_loss' = 0 /\ ops' = <<>>
  /\ metrics' = <<>> /\ saved' = <<>> /\ broke' = FALSE
  /\ ResetPredict
  /\ last_invoke' = NoInvoke
  /\ pc' = "epoch_start" /\ caller' = "top" /\ ret' = "none"
  /\ UNCHANGED <<cfgVars, ckpt>>

\* top of the for-loop body: batch_losses = [], model.train(), cursor reset
EpochStart ==
  /\ pc = "epoch_start"
  /\ batch_losses' = <<>> /\ ops' = <<>>
  /\ model_mode' = "train"
  /\ bidx_i' = 0 /\ bidx_j' = train_batch_size
  /\ pc' = "train_loop"
  /\ UNCHANGED <<cfgVars, model_steps, ckpt, caller, ret, total_obs, dev_total, epoch,
                 curr_train_loss, best_loss, best_r, train_losses,
                 dev_losses, dev_rs, bad_count, predVars, histVars,
                 last_invoke>>

\* one pass of the while body up to the cursor advance
TrainBatch ==
  /\ pc = "train_loop"
  /\ LoopCond(bidx_j, total_obs)
  /\ batch_losses' = Append(batch_losses,
                       TrainBatchLoss(pretraining, bidx_i, bidx_j, total_obs))
  /\ last_invoke' = [by |-> "train", mode |-> model_mode]
  /\ ops' = ops \o TrainOps
  /\ model_steps' = model_steps + 1
  /\ bidx_i' = bidx_j
  /\ bidx_j' = bidx_j + train_batch_size
  /\ pc' = "train_tail"
  /\ UNCHANGED <<cfgVars, model_mode, ckpt, caller, ret, total_obs,
                 dev_total, epoch, curr_train_loss, best_loss, best_r,
                 train_losses, dev_losses, dev_rs, bad_count, predVars,
                 histVars>>

\* the rest of the while body: the trailing batch when the cursor passed the
\* end, then pbar.update
TrainTail ==
  /\ pc = "train_tail"
  /\ IF TailCond(bidx_j, total_obs)
     THEN /\ batch_losses' = Append(batch_losses,
                  TrainBatchLoss(pretraining, bidx_i, bidx_j, total_obs))
          /\ last_invoke' = [by |-> "train", mode |-> model_mode]
          /\ ops' = ops \o TrainOps
          /\ model_steps' = model_steps + 1
     ELSE UNCHANGED <<batch_losses, last_invoke, ops, model_steps>>
  /\ pc' = "train_loop"
  /\ UNCHANGED <<cfgVars, model_mode, ckpt, caller, ret, total_obs,
                 dev_total, epoch, bidx_i, bidx_j, curr_train_loss,
                 best_loss, best_r, train_losses, dev_losses, dev_rs,
                 bad_count, predVars, histVars>>

\* end of the for-loop body: next epoch, or return when a break fired or the
\* range is exhausted
LoopNext(stop) ==
  IF stop \/ epoch + 1 >= epochs
  THEN pc' = "top" /\ ret' = "train" /\ epoch' = epoch
  ELSE pc' = "epoch_start" /\ ret' = ret /\ epoch' = epoch + 1

\* convergence mode: mean loss, checkpoint on a new best loss, convergence
\* stop, history
EpochEndConv(v) ==
  /\ pc = "train_loop"
  /\ ~LoopCond(bidx_j, total_obs)
  /\ data_name = Megaverid
  /\ LET curr == MeanOf(batch_losses, v)
         better == BetterLoss(curr, best_loss)
         stop == Converged(epoch, curr, train_losses)
     IN /\ curr_train_loss' = curr
        /\ ckpt' = IF better THEN epoch ELSE ckpt
        /\ best_loss' = IF better THEN curr ELSE best_loss
        /\ train_losses' = AppendUnless(stop, train_losses, curr)
        /\ metrics' = Append(metrics, curr)
        /\ saved' = Append(saved, better)
        /\ broke' = stop
        /\ LoopNext(stop)
  /\ UNCHANGED <<cfgVars, model_steps, model_mode, caller, total_obs, dev_total, bidx_i,
                 bidx_j, batch_losses, best_r, dev_losses, dev_rs,
                 bad_count, ops, predVars, last_invoke>>

\* validation mode: mean loss, then the call self.predict(dev_x, dev_y)
EpochCallPredict(v) ==
  /\ pc = "train_loop"
  /\ ~LoopCond(bidx_j, total_obs)
  /\ data_name # Megaverid
  /\ curr_train_loss' = MeanOf(batch_losses, v)
  /\ EnterPredict(dev_total, "None")
  /\ pc' = "predict_loop" /\ caller' = "train"
  /\ UNCHANGED <<cfgVars, model_steps, ckpt, ret, total_obs, dev_total, epoch, bidx_i,
                 bidx_j, batch_losses, best_loss, best_r, train_losses,
                 dev_losses, dev_rs, bad_count, ops, histVars, last_invoke>>

\* validation mode, after predict() returned: correlation, checkpoint on a
\* new best correlation, bad-epoch counter, early stop, histories
EpochEndVal(r) ==
  /\ pc = "predict_loop"
  /\ ~LoopCond(p_j, p_total)
  /\ caller = "train"
  /\ LET curr_dev_loss == MeanOf(p_batch_losses, 0)
         curr_dev_r == Pearson(yhat, r)
         better == BetterR(curr_dev_r, best_r)
         bad == BadCount(epoch, curr_dev_r, dev_rs, bad_count)
         stop == EarlyStop(bad)
     IN /\ ckpt' = IF better THEN epoch ELSE ckpt
        /\ best_r' = IF better THEN curr_dev_r ELSE best_r
        /\ bad_count' = bad
        /\ dev_rs' = AppendUnless(stop, dev_rs, curr_dev_r)
        /\ dev_losses' = AppendUnless(stop, dev_losses, curr_dev_loss)
        /\ train_losses' = AppendUnless(stop, train_losses, curr_train_loss)
        /\ metrics' = Append(metrics, curr_dev_r)
        /\ saved' = Append(saved, better)
        /\ broke' = stop
        /\ LoopNext(stop)
  /\ ResetPredict
  /\ caller' = "top"
  /\ UNCHANGED <<cfgVars, model_steps, model_mode, total_obs, dev_total, bidx_i, bidx_j,
                 batch_losses, curr_train_loss, best_loss, ops,
                 last_invoke>>

\* ---- predict() ----
\* predict(data_x, data_y, loss) called by the user
CallPredict(n, flag) ==
  /\ pc = "top"
  /\ model_mode # "none"
  /\ EnterPredict(n, flag)
  /\ ResetTrain
  /\ last_invoke' = NoInvoke
  /\ pc' = "predict_loop" /\ caller' = "top" /\ ret' = "none"
  /\ UNCHANGED <<cfgVars, model_steps, ckpt>>

\* one pass of predict()'s while body up to the cursor advance
PredictBatch ==
  /\ pc = "predict_loop"
  /\ LoopCond(p_j, p_total)
  /\ yhat' = WriteYhat(yhat, p_i, p_j, p_total)
  /\ p_batches' = Append(p_batches, Slice(p_i, p_j, p_total))
  /\ p_batch_losses' = Append(p_batch_losses,
                  PredictBatchLoss(pretraining, loss, p_i, p_j, p_total))
  /\ last_invoke' = [by |-> "predict", mode |-> model_mode]
  /\ p_i' = p_j
  /\ p_j' = PredictNextJ(p_j)
  /\ pc' = "predict_tail"
  /\ UNCHANGED <<cfgVars, model_steps, model_mode, ckpt, caller, ret, trainVars,
                 histVars, p_total, loss>>

\* the rest of predict()'s while body: the trailing batch
PredictTail ==
  /\ pc = "predict_tail"
  /\ IF TailCond(p_j, p_total)
     THEN /\ yhat' = WriteYhat(yhat, p_i, p_j, p_total)
          /\ p_batches' = Append(p_batches, Slice(p_i, p_j, p_total))
          /\ p_batch_losses' = Append(p_batch_losses,
                  PredictBatchLoss(pretraining, loss, p_i, p_j, p_total))
          /\ last_invoke' = [by |-> "predict", mode |-> model_mode]
     ELSE UNCHANGED <<yhat, p_batch_losses, p_batches, last_invoke>>
  /\ pc' = "predict_loop"
  /\ UNCHANGED <<cfgVars, model_steps, model_mode, ckpt, caller, ret, trainVars,
                 histVars, p_total, p_i, p_j, loss>>

\* return np.mean(batch_losses), yhat.detach() to the user
PredictReturn ==
  /\ pc = "predict_loop"
  /\ ~LoopCond(p_j, p_total)
  /\ caller = "top"
  /\ pc' = "top" /\ ret' = "predict"
  /\ UNCHANGED <<cfgVars, model_steps, model_mode, ckpt, caller, trainVars, predVars,
                 histVars, last_invoke>>

\* ---- predict_grad() ----
\* predict_grad(data_x): cursor and pre-allocated result, no mode change
CallPredictGrad(n) ==
  /\ pc = "top"
  /\ model_mode # "none"
  /\ p_total' = n /\ p_i' = 0 /\ p_j' = predict_batch_size
  /\ yhat' = Zeros(n) /\ p_batch_losses' = <<>> /\ loss' = "None"
  /\ p_batches' = <<>>
  /\ ResetTrain
  /\ last_invoke' = NoInvoke
  /\ pc' = "grad_loop" /\ caller' = "top" /\ ret' = "none"
  /\ UNCHANGED <<cfgVars, model_steps, model_mode, ckpt>>

\* one pass of predict_grad()'s while body up to the cursor advance
GradBatch ==
  /\ pc = "grad_loop"
  /\ LoopCond(p_j, p_total)
  /\ yhat' = WriteYhat(yhat, p_i, p_j, p_total)
  /\ p_batches' = Append(p_batches, Slice(p_i, p_j, p_total))
  /\ last_invoke' = [by |-> "predict_grad", mode |-> model_mode]
  /\ p_i' = p_j
  /\ p_j' = PredictNextJ(p_j)
  /\ pc' = "grad_tail"
  /\ UNCHANGED <<cfgVars, model_steps, model_mode, ckpt, caller, ret, trainVars,
                 histVars, p_total, p_batch_losses, loss>>

\* the rest of predict_grad()'s while body: the trailing batch
GradTail ==
  /\ pc = "grad_tail"
  /\ IF TailCond(p_j, p_total)
     THEN /\ yhat' = WriteYhat(yhat, p_i, p_j, p_total)
          /\ p_batches' = Append(p_batches, Slice(p_i, p_j, p_total))
          /\ last_invoke' = [by |-> "predict_grad", mode |-> model_mode]
     ELSE UNCHANGED <<yhat, p_batches, last_invoke>>
  /\ pc' = "grad_loop"
  /\ UNCHANGED <<cfgVars, model_steps, model_mode, ckpt, caller, ret, trainVars,
                 histVars, p_total, p_i, p_j, p_batch_losses, loss>>

\* return yhat
GradReturn ==
  /\ pc = "grad_loop"
  /\ ~LoopCond(p_j, p_total)
  /\ pc' = "top" /\ ret' = "predict_grad"
  /\ UNCHANGED <<cfgVars, model_steps, model_mode, ckpt, caller, trainVars, predVars,
                 histVars, last_invoke>>

Next ==
  \/ \E n \in datasets, d \in datasets : CallTrain(n, d)
  \/ EpochStart
  \/ TrainBatch
  \/ TrainTail
  \/ \E v \in TrainLossVals : EpochEndConv(v)
  \/ \E v \in TrainLossVals : EpochCallPredict(v)
  \/ \E r \in RVals : EpochEndVal(r)
  \/ \E n \in datasets, flag \in {"None", "l1"} : CallPredict(n, flag)
  \/ PredictBatch
  \/ PredictTail
  \/ PredictReturn
  \/ \E n \in datasets : CallPredictGrad(n)
  \/ GradBatch
  \/ GradTail
  \/ GradReturn

Spec == Init /\ [][Next]_vars
SpecEpoch == InitEpoch /\ [][Next]_vars

\* ---- where the program is ----
\* train() has returned to the caller
TrainReturned == pc = "top" /\ ret = "train"
\* the batch loop of the current training epoch has exited; batch_losses
\* holds the batches of that epoch
TrainLoopExited ==
  \/ pc = "train_loop" /\ ~(bidx_j < total_obs)
  \/ pc = "epoch_start" /\ epoch >= 1
  \/ pc \in {"predict_loop", "predict_tail"} /\ caller = "train"
  \/ TrainReturned
\* the batch loop of predict() / predict_grad() has exited
PredictLoopExited ==
  \/ pc \in {"predict_loop", "grad_loop"} /\ ~(p_j < p_total)
  \/ pc = "top" /\ ret \in {"predict", "predict_grad"}
\* every index of [0, total) lies in one of the slices
Covered(bs, total) ==
  \A k \in 0..(total - 1) :
    \E n \in 1..Len(bs) : bs[n].lo <= k /\ k < bs[n].hi
WholeOnly(bs, total) ==
  Len(bs) = 1 /\ bs[1].lo = 0 /\ bs[1].hi = total
ValidationMode == data_name # Megaverid
ConvergenceMode == data_name = Megaverid
NumSaved == Cardinality({e \in 1..Len(saved) : saved[e]})

\* C1: the batches of one training epoch, clipped to the dataset, contain
\* every index of [0, total), for every total >= 1 and batch size >= 1.
C1_EpochCoversDataset ==
  (TrainLoopExited /\ total_obs >= 1) => Covered(batch_losses, total_obs)

\* C2: when 1 <= total <= B the batch loop of train(), predict() and
\* predict_grad() processes exactly one batch, spanning [0, total).
C2_OneBatchWhenDatasetFits ==
  /\ (TrainLoopExited /\ 1 <= total_obs /\ total_obs <= train_batch_size)
       => WholeOnly(batch_losses, total_obs)
  /\ (PredictLoopExited /\ 1 <= p_total /\ p_total <= predict_batch_size)
       => WholeOnly(p_batches, p_total)

\* C3: the vector predict() / predict_grad() returns has total entries and
\* entry k is the model's output for example k; none is left at zero.
C3_PredictionsAligned ==
  (PredictLoopExited /\ p_total >= 1) =>
     /\ DOMAIN yhat = 0..(p_total - 1)
     /\ \A k \in DOMAIN yhat : yhat[k] = k

\* C4: every train() call with epochs >= 1 writes the checkpoint at least
\* once; convergence mode with epochs = 1 returns one train loss, empty dev
\* histories and exactly one checkpoint write.
C4_CheckpointAlwaysWritten ==
  TrainReturned =>
     /\ NumSaved >= 1
     /\ (ConvergenceMode /\ epochs = 1) =>
          /\ Len(train_losses) = 1
          /\ dev_losses = <<>> /\ dev_rs = <<>>
          /\ NumSaved = 1

\* the metric of epoch e is strictly better than every metric of the
\* epochs before it (better than the sentinel when there is none)
StrictlyBest(e) ==
  /\ metrics[e] # NaN
  /\ \A d \in 1..(e - 1) :
       metrics[d] # NaN =>
         IF ConvergenceMode THEN metrics[e] < metrics[d]
                            ELSE metrics[e] > metrics[d]
LastSaved == CHOOSE e \in 1..Len(saved) :
               saved[e] /\ \A d \in (e + 1)..Len(saved) : ~saved[d]

\* C5: an epoch writes the checkpoint iff its tracked metric is strictly
\* better than the best of all earlier epochs of the call (a tie does not
\* rewrite it), and best_loss / best_r changes exactly when it is written.
C5_CheckpointIffStrictlyBetter ==
  /\ \A e \in 1..Len(metrics) : saved[e] <=> StrictlyBest(e)
  /\ IF NumSaved = 0
     THEN best_loss = Inf /\ best_r = NegInf
     ELSE IF ConvergenceMode
          THEN best_loss = metrics[LastSaved] /\ best_r = NegInf
          ELSE best_r = metrics[LastSaved] /\ best_loss = Inf
C5_TieNotRewritten ==
  /\ Len(metrics) >= 3
  /\ saved[1] /\ saved[2] /\ ~saved[3]
  /\ metrics[3] = metrics[2]

\* the last three epochs run did not beat / fell below their predecessor
LastThree == (Len(metrics) - 2)..Len(metrics)
ThreeNonImprovements ==
  /\ Len(metrics) >= 4
  /\ \A e \in 1..Len(metrics) : metrics[e] # NaN
  /\ \A e \in 1..Len(train_losses) : train_losses[e] # NaN
  /\ \A e \in LastThree : ~(metrics[e] > metrics[e - 1])
ThreeDrops ==
  /\ Len(metrics) >= 4
  /\ \A e \in LastThree : Lt(metrics[e], metrics[e - 1])

\* C6 as stated: in validation mode train() halts early once the dev
\* correlation has not been strictly greater than the previous epoch's for
\* 3 consecutive epochs after the first.
C6_HaltsOnNonImprovement ==
  (ValidationMode /\ ThreeNonImprovements /\ Len(metrics) < epochs)
     => (TrainReturned /\ broke)
\* C6 amended: in validation mode train() halts (break, no further epoch)
\* once the dev correlation has been strictly lower than the previous
\* epoch's for 3 consecutive epochs after the first.
C6_HaltsOnThreeDrops ==
  (ValidationMode /\ ThreeDrops) => (TrainReturned /\ broke)
C6_EarlyStopReached ==
  /\ ValidationMode /\ ThreeDrops /\ broke
  /\ Len(metrics) = 4 /\ Len(metrics) < epochs

\* two mean losses differ by less than the tolerance
Near(a, b) == a # NaN /\ b # NaN /\ a - b < Tol /\ b - a < Tol

\* C7: in convergence mode train() runs at most `epochs` epochs and stops
\* at the first epoch e >= 1 whose mean loss is within 1e-4 of the previous
\* epoch's, running no epoch after it; epoch 0 never triggers the stop.
C7_ConvergenceStop ==
  ConvergenceMode =>
     /\ Len(metrics) <= epochs
     /\ \A e \in 2..Len(metrics) :
          Near(metrics[e], metrics[e - 1]) =>
            (e = Len(metrics) /\ TrainReturned /\ broke)
     /\ broke => /\ Len(metrics) >= 2
                 /\ Near(Last(metrics), metrics[Len(metrics) - 1])
C7_ConvergedEarly ==
  /\ ConvergenceMode /\ broke /\ TrainReturned
  /\ Len(metrics) = 3 /\ Len(metrics) < epochs
  /\ ~Near(metrics[2], metrics[1])

\* epochs whose metrics were appended: all but the one a break fired in
Recorded == Len(metrics) - (IF broke THEN 1 ELSE 0)

\* C8: the histories are parallel: in validation mode the three have one
\* length; in convergence mode dev_losses and dev_rs are empty and
\* train_losses has one entry per recorded epoch.
C8_ParallelHistories ==
  IF ValidationMode
  THEN Len(train_losses) = Len(dev_losses) /\ Len(dev_losses) = Len(dev_rs)
  ELSE /\ dev_losses = <<>> /\ dev_rs = <<>>
       /\ Len(train_losses) = Recorded
C8_StoppedWithHistories ==
  /\ ConvergenceMode /\ TrainReturned /\ broke
  /\ Len(train_losses) = 2

\* C9: whenever predict() or predict_grad() invokes the model, the model is
\* in evaluation mode.
C9_PredictRunsInEvalMode ==
  last_invoke.by \in {"predict", "predict_grad"} => last_invoke.mode = "eval"

\* C10: predict(..., loss="l1") computes every batch loss with the L1 loss
\* and any other flag with smooth L1, whatever the configuration.
C10_LossFlagSelectsLoss ==
  \A n \in 1..Len(p_batch_losses) :
    p_batch_losses[n].fn = (IF loss = "l1" THEN "l1" ELSE "smooth_l1")

\* C11: every train() call starts from a fresh training state whatever
\* earlier calls left behind: a new model, best_loss = +inf, best_r = -inf,
\* bad_count = 0 and empty histories.
C11_FreshTrainingState ==
  (pc = "epoch_start" /\ epoch = 0) =>
     /\ model_mode = "train" /\ model_steps = 0
     /\ best_loss = Inf /\ best_r = NegInf /\ bad_count = 0
     /\ train_losses = <<>> /\ dev_losses = <<>> /\ dev_rs = <<>>
     /\ metrics = <<>> /\ saved = <<>> /\ ~broke
C11_SecondCallStarts ==
  /\ pc = "epoch_start" /\ epoch = 0
  /\ ckpt # NoFile /\ ckpt >= 1

CeilDiv(a, b) == (a + b - 1) \div b

\* C12: for total > B one training epoch processes exactly ceil(total/B)
\* batches, the k-th being [k*B, (k+1)*B) clipped to total, in order.
C12_BatchesPartition ==
  (TrainLoopExited /\ total_obs > train_batch_size) =>
     /\ Len(batch_losses) = CeilDiv(total_obs, train_batch_size)
     /\ \A k \in 1..Len(batch_losses) :
          /\ batch_losses[k].lo = (k - 1) * train_batch_size
          /\ batch_losses[k].hi =
               (IF k * train_batch_size < total_obs
                THEN k * train_batch_size ELSE total_obs)
C12_FiveByTwo ==
  /\ TrainLoopExited /\ total_obs = 5 /\ train_batch_size = 2
  /\ Len(batch_losses) = 3
  /\ batch_losses[3].lo = 4 /\ batch_losses[3].hi = 5

\* the number of consecutive strict drops of the metric ending at epoch e
RECURSIVE DropsUpTo(_, _)
DropsUpTo(m, e) ==
  IF e <= 1 THEN 0
  ELSE IF m[e] # NaN /\ m[e - 1] # NaN /\ m[e] < m[e - 1]
       THEN DropsUpTo(m, e - 1) + 1
       ELSE 0

\* C13: in validation mode the bad-epoch counter is, at every epoch >= 1,
\* incremented on a strict drop of the dev correlation and reset otherwise;
\* train() stops at exactly the first epoch at which it reaches 3.
C13_BadEpochCounter ==
  ValidationMode =>
     /\ bad_count = DropsUpTo(metrics, Len(metrics))
     /\ broke <=> bad_count = Patience
     /\ bad_count = Patience => TrainReturned
     /\ \A e \in 1..(Len(metrics) - 1) : DropsUpTo(metrics, e) < Patience
C13_FourEpochScenario ==
  /\ ValidationMode /\ TrainReturned /\ broke
  /\ metrics = <<3, 2, 1, 0>>
  /\ epochs > 4

\* C14 as stated: in validation mode every epoch run appends its dev
\* correlation, dev loss and train loss, also when the early stop fired.
C14_EveryEpochAppended ==
  ValidationMode =>
     /\ Len(dev_rs) = Len(metrics)
     /\ Len(dev_losses) = Len(metrics)
     /\ Len(train_losses) = Len(metrics)
\* C14 amended: in validation mode every epoch run appends its dev
\* correlation, dev loss and train loss, whether or not the checkpoint was
\* rewritten or the counter changed, except the epoch the early stop fired in.
C14_EveryEpochAppendedUnlessStopped ==
  ValidationMode =>
     /\ Len(dev_rs) = Recorded
     /\ Len(dev_losses) = Recorded
     /\ Len(train_losses) = Recorded
     /\ \A e \in 1..Len(dev_rs) : dev_rs[e] = metrics[e]
C14_AppendedWithoutCheckpoint ==
  /\ ValidationMode /\ TrainReturned /\ ~broke
  /\ Len(dev_rs) = 3 /\ Len(dev_losses) = 3
  /\ saved[1] /\ ~saved[2] /\ ~saved[3]
  /\ bad_count = 2

\* C15: every batch of predict() / predict_grad() but the last has exactly
\* predict_batch_size examples.
C15_InferenceBatchSize ==
  \A n \in 1..(Len(p_batches) - 1) :
    p_batches[n].hi - p_batches[n].lo = predict_batch_size

\* the order of the calls the claim gives for one training batch
BatchCycle ==
  <<"zero_grad", "forward", "loss", "record", "backward", "step">>
InTrainFrame ==
  pc \in {"train_loop", "train_tail"} \/ TrainLoopExited

\* C16: every training batch triggers exactly one sequence zero_grad,
\* forward, loss, record, backward, step, so an epoch has as many optimizer
\* steps as recorded batch losses; every training forward pass runs with the
\* model in training mode.
C16_TrainingBatchSequence ==
  /\ InTrainFrame =>
       /\ Len(ops) = Len(BatchCycle) * Len(batch_losses)
       /\ \A n \in 1..Len(ops) :
            ops[n] = BatchCycle[((n - 1) % Len(BatchCycle)) + 1]
       /\ Cardinality({n \in 1..Len(ops) : ops[n] = "step"})
            = Len(batch_losses)
  /\ last_invoke.by = "train" => last_invoke.mode = "train"
C16_TrainsAfterPredict ==
  /\ ValidationMode /\ epoch >= 1
  /\ pc = "train_tail" /\ Len(batch_losses) = 1
  /\ last_invoke = [by |-> "train", mode |-> "train"]

\* C17: a train() run does not depend on the pretraining flag: each loss a
\* step of train() records is the loss the flipped flag would record, and
\* nothing else in train() reads the flag.
C17_PretrainingIndependent ==
  [][ /\ (pc \in {"train_loop", "train_tail"}
           /\ Len(batch_losses') > Len(batch_losses))
        => batch_losses' = Append(batch_losses,
             TrainBatchLoss(~pretraining, bidx_i, bidx_j, total_obs))
      /\ (caller = "train" /\ Len(p_batch_losses') > Len(p_batch_losses))
        => p_batch_losses' = Append(p_batch_losses,
             PredictBatchLoss(~pretraining, loss, p_i, p_j, p_total))
    ]_vars
C17_PretrainingRun ==
  /\ pretraining /\ TrainReturned
  /\ Len(batch_losses) >= 2 /\ NumSaved >= 1

\* the slices are non-empty, start at 0 and each starts where the previous
\* one ended
Contiguous(bs) ==
  \A n \in 1..Len(bs) :
    /\ bs[n].lo < bs[n].hi
    /\ bs[n].lo = (IF n = 1 THEN 0 ELSE bs[n - 1].hi)
Disjoint(bs) ==
  \A m, n \in 1..Len(bs) : m < n => bs[m].hi <= bs[n].lo

\* C18: the clipped batches of the cursor loop are pairwise disjoint, each
\* starting at the previous batch's end, in train(), predict() and
\* predict_grad(), for every total and batch sizes.
C18_BatchesDisjoint ==
  /\ Contiguous(batch_losses) /\ Disjoint(batch_losses)
  /\ Contiguous(p_batches) /\ Disjoint(p_batches)
C18_ThreeMixedBatches ==
  /\ PredictLoopExited /\ Len(p_batches) >= 3
  /\ train_batch_size # predict_batch_size

\* epoch e (1-based) is the earliest epoch run that attains the best metric
EarliestBest(e) ==
  /\ metrics[e] # NaN
  /\ \A d \in 1..Len(metrics) :
       metrics[d] # NaN =>
         IF ConvergenceMode THEN metrics[e] <= metrics[d]
                            ELSE metrics[e] >= metrics[d]
  /\ \A d \in 1..(e - 1) : metrics[d] # metrics[e]

\* C19: when train() returns having written a checkpoint, the checkpoint is
\* from the earliest epoch attaining the best metric among all epochs run,
\* the stopping epoch included; in validation mode the best correlation is
\* max(dev_rs).
C19_CheckpointIsEarliestBest ==
  (TrainReturned /\ NumSaved >= 1) =>
     /\ ckpt + 1 \in 1..Len(metrics)
     /\ EarliestBest(ckpt + 1)
     /\ ValidationMode =>
          /\ \E e \in 1..Len(dev_rs) : dev_rs[e] = best_r
          /\ \A e \in 1..Len(dev_rs) : dev_rs[e] <= best_r
C19_BestBelowHistory ==
  /\ ConvergenceMode /\ TrainReturned /\ broke
  /\ ckpt + 1 = Len(metrics)
  /\ \A e \in 1..Len(train_losses) : best_loss < train_losses[e]

TypeOK ==
  /\ pc \in {"top", "epoch_start", "train_loop", "train_tail",
             "predict_loop", "predict_tail", "grad_loop", "grad_tail"}
  /\ model_mode \in {"none", "train", "eval"}
  /\ epoch \in 0..(epochs - 1)
  /\ bad_count \in 0..Patience
  /\ Len(metrics) = Len(saved)
====
